---- MODULE Spec2Model ----
(***************************************************************************)
(* Model of chemical_reaction_balancer.py: balance_reaction and the        *)
(* functions it calls.  A Python str is a sequence of one-character        *)
(* strings; a sympy Rational is a pair <<numerator, denominator>> in       *)
(* lowest terms with a positive denominator.                               *)
(***************************************************************************)
EXTENDS Integers, Sequences, FiniteSets, TLC

(***************************************************************************)
(* Characters and strings                                                  *)
(***************************************************************************)
UpperSeq ==
  <<"A","B","C","D","E","F","G","H","I","J","K","L","M",
    "N","O","P","Q","R","S","T","U","V","W","X","Y","Z">>

LowerSeq ==
  <<"a","b","c","d","e","f","g","h","i","j","k","l","m",
    "n","o","p","q","r","s","t","u","v","w","x","y","z">>

DigitSeq ==
  <<"0","1","2","3","4","5","6","7","8","9">>

Range(s) ==
  {s[i] : i \in DOMAIN s}

Upper ==
  Range(UpperSeq)

Lower ==
  Range(LowerSeq)

Digit ==
  Range(DigitSeq)

\* the whitespace str.strip() removes from both ends, of the characters the
\* reaction strings here are made of
Whitespace ==
  {" "}

IndexIn(c, s) ==
  CHOOSE i \in DOMAIN s : s[i] = c

\* code point order of the letters: every uppercase letter sorts before
\* every lowercase letter
Ord(c) ==
  IF c \in Upper THEN IndexIn(c, UpperSeq) ELSE 26 + IndexIn(c, LowerSeq)

\* str < str of Python: lexicographic by code point, a proper prefix first
RECURSIVE StrLess(_, _)
StrLess(a, b) ==
  IF b = <<>> THEN FALSE
  ELSE IF a = <<>> THEN TRUE
  ELSE IF a[1] # b[1] THEN Ord(a[1]) < Ord(b[1])
  ELSE StrLess(Tail(a), Tail(b))

\* sorted(set of str)
RECURSIVE Sorted(_)
Sorted(S) ==
  IF S = {} THEN <<>>
  ELSE LET m == CHOOSE x \in S : \A y \in S \ {x} : StrLess(x, y)
       IN  <<m>> \o Sorted(S \ {m})

\* sep.join(parts)
RECURSIVE Join(_, _)
Join(parts, sep) ==
  IF parts = <<>> THEN <<>>
  ELSE IF Len(parts) = 1 THEN parts[1]
  ELSE parts[1] \o sep \o Join(Tail(parts), sep)

StartsWith(s, i, sep) ==
  /\ i + Len(sep) - 1 <= Len(s)
  /\ SubSeq(s, i, i + Len(sep) - 1) = sep

\* s.split(sep) for a non-empty sep: cut at every occurrence found scanning
\* left to right, occurrences not overlapping
RECURSIVE SplitFrom(_, _, _, _)
SplitFrom(s, sep, start, i) ==
  IF i > Len(s) THEN <<SubSeq(s, start, Len(s))>>
  ELSE IF StartsWith(s, i, sep)
       THEN <<SubSeq(s, start, i - 1)>> \o SplitFrom(s, sep, i + Len(sep), i + Len(sep))
       ELSE SplitFrom(s, sep, start, i + 1)

Split(s, sep) ==
  SplitFrom(s, sep, 1, 1)

\* s.strip()
RECURSIVE LStrip(_)
LStrip(s) ==
  IF s # <<>> /\ s[1] \in Whitespace THEN LStrip(Tail(s)) ELSE s

RECURSIVE RStrip(_)
RStrip(s) ==
  IF s # <<>> /\ s[Len(s)] \in Whitespace THEN RStrip(SubSeq(s, 1, Len(s) - 1)) ELSE s

Strip(s) ==
  RStrip(LStrip(s))

\* int(digits) for a non-empty run of decimal digits
RECURSIVE IntOf(_)
IntOf(ds) ==
  IF ds = <<>> THEN 0
  ELSE 10 * IntOf(SubSeq(ds, 1, Len(ds) - 1)) + (IndexIn(ds[Len(ds)], DigitSeq) - 1)

\* str(n) for an int: decimal, no leading zeros, "-" before a negative
RECURSIVE NatStr(_)
NatStr(n) ==
  IF n < 10 THEN <<DigitSeq[n + 1]>>
  ELSE NatStr(n \div 10) \o <<DigitSeq[(n % 10) + 1]>>

IntStr(n) ==
  IF n < 0 THEN <<"-">> \o NatStr(-n) ELSE NatStr(n)

(***************************************************************************)
(* Exact arithmetic                                                        *)
(***************************************************************************)
Abs(n) ==
  IF n < 0 THEN -n ELSE n

RECURSIVE Euclid(_, _)
Euclid(a, b) ==
  IF b = 0 THEN a ELSE Euclid(b, a % b)

\* math.gcd
gcd(a, b) ==
  Euclid(Abs(a), Abs(b))

\* Rational(n, d): lowest terms, positive denominator
Rat(n, d) ==
  LET g == gcd(n, d)
      s == IF d < 0 THEN -1 ELSE 1
  IN  <<(s * n) \div g, (s * d) \div g>>

RInt(n) ==
  <<n, 1>>

RSub(x, y) ==
  Rat(x[1] * y[2] - y[1] * x[2], x[2] * y[2])

RMul(x, y) ==
  Rat(x[1] * y[1], x[2] * y[2])

RDiv(x, y) ==
  Rat(x[1] * y[2], x[2] * y[1])

RZero ==
  RInt(0)

ROne ==
  RInt(1)

(***************************************************************************)
(* parse_compound                                                          *)
(***************************************************************************)
\* index just past the longest run of characters of class cls starting at i
RECURSIVE RunEnd(_, _, _)
RunEnd(s, i, cls) ==
  IF i <= Len(s) /\ s[i] \in cls THEN RunEnd(s, i + 1, cls) ELSE i

\* re.findall(r'([A-Z][a-z]*)(\d*)', s): the matches <<element, count>>,
\* left to right, not overlapping; both quantifiers are greedy
RECURSIVE findall(_, _)
findall(s, i) ==
  IF i > Len(s) THEN <<>>
  ELSE IF s[i] \in Upper
       THEN LET j == RunEnd(s, i + 1, Lower)
                k == RunEnd(s, j, Digit)
            IN  <<<<SubSeq(s, i, j - 1), SubSeq(s, j, k - 1)>>>> \o findall(s, k)
       ELSE findall(s, i + 1)

\* int(count) if count else 1
CountOf(count) ==
  IF count # <<>> THEN IntOf(count) ELSE 1

\* a dict comprehension keeps, for a key that occurs more than once, the
\* value of its last occurrence
DictOf(items) ==
  [e \in {items[k][1] : k \in DOMAIN items} |->
     LET last == CHOOSE k \in DOMAIN items :
                   /\ items[k][1] = e
                   /\ \A j \in DOMAIN items : j > k => items[j][1] # e
     IN  CountOf(items[last][2])]

parse_compound(compound) ==
  DictOf(findall(compound, 1))

\* dict.get(key, default)
Get(d, key, default) ==
  IF key \in DOMAIN d THEN d[key] ELSE default

(***************************************************************************)
(* parse_reaction                                                          *)
(***************************************************************************)
Arrow ==
  <<"-", ">">>

Plus ==
  <<"+">>

\* the return value None, None
None ==
  <<>>

StripAll(tokens) ==
  [i \in DOMAIN tokens |-> Strip(tokens[i])]

\* left, right = reaction.split("->") raises ValueError unless the split
\* gives exactly two parts
\* parse_reaction cutting at the first "->" only
parse_reaction_first(reaction) ==
  LET sides == Split(reaction, Arrow)
  IN  IF Len(sides) < 2 THEN None
      ELSE <<StripAll(Split(sides[1], Plus)),
             StripAll(Split(Join(Tail(sides), Arrow), Plus))>>

parse_reaction(reaction) ==
  LET sides == Split(reaction, Arrow)
  IN  IF Len(sides) # 2 THEN None
      ELSE <<StripAll(Split(sides[1], Plus)), StripAll(Split(sides[2], Plus))>>

(***************************************************************************)
(* get_elements, build_matrix                                              *)
(***************************************************************************)
get_elements(reactants, products) ==
  LET compounds == reactants \o products
  IN  Sorted(UNION {DOMAIN parse_compound(compounds[i]) : i \in DOMAIN compounds})

\* build_matrix with the product columns left positive
build_matrix_unsigned(reactants, products, elements) ==
  [r \in DOMAIN elements |->
     [c \in 1..(Len(reactants) + Len(products)) |->
        IF c <= Len(reactants)
        THEN Get(parse_compound(reactants[c]), elements[r], 0)
        ELSE Get(parse_compound(products[c - Len(reactants)]), elements[r], 0)]]

build_matrix(reactants, products, elements) ==
  [r \in DOMAIN elements |->
     [c \in 1..(Len(reactants) + Len(products)) |->
        IF c <= Len(reactants)
        THEN Get(parse_compound(reactants[c]), elements[r], 0)
        ELSE -Get(parse_compound(products[c - Len(reactants)]), elements[r], 0)]]

(***************************************************************************)
(* Matrix(matrix).nullspace()                                              *)
(***************************************************************************)
\* Matrix(list of rows): a list with no rows is the 0 x 0 matrix
MatrixCols(matrix) ==
  IF matrix = <<>> THEN 0 ELSE Len(matrix[1])

Matrix(matrix) ==
  [r \in DOMAIN matrix |-> [c \in 1..MatrixCols(matrix) |-> RInt(matrix[r][c])]]

Min(S) ==
  CHOOSE x \in S : \A y \in S : x <= y

\* Gauss-Jordan elimination over the rationals from row r, column c on.
\* The reduced row echelon form is unique, so the pivot row taken among the
\* nonzero candidates does not affect the result.
RECURSIVE rref_from(_, _, _, _, _)
rref_from(M, cols, r, c, pivots) ==
  IF r > Len(M) \/ c > cols THEN [reduced |-> M, pivots |-> pivots]
  ELSE LET cand == {k \in r..Len(M) : M[k][c] # RZero}
       IN  IF cand = {} THEN rref_from(M, cols, r, c + 1, pivots)
           ELSE LET p == Min(cand)
                    swapped == [M EXCEPT ![r] = M[p], ![p] = M[r]]
                    pivrow == [j \in 1..cols |-> RDiv(swapped[r][j], swapped[r][c])]
                    elim == [k \in DOMAIN M |->
                              IF k = r THEN pivrow
                              ELSE [j \in 1..cols |->
                                      RSub(swapped[k][j], RMul(swapped[k][c], pivrow[j]))]]
                IN  rref_from(elim, cols, r + 1, c + 1, Append(pivots, c))

rref(M, cols) ==
  rref_from(M, cols, 1, 1, <<>>)

\* the columns of S in increasing order
RECURSIVE Ascending(_)
Ascending(S) ==
  IF S = {} THEN <<>> ELSE <<Min(S)>> \o Ascending(S \ {Min(S)})

\* one basis vector per free column, in column order: the free variable is 1,
\* the other free variables 0, each pivot variable minus the reduced entry
nullspace(M, cols) ==
  LET R == rref(M, cols)
      free_vars == Ascending({c \in 1..cols : c \notin Range(R.pivots)})
  IN  [b \in DOMAIN free_vars |->
         [c \in 1..cols |->
            IF c = free_vars[b] THEN ROne
            ELSE IF c \in Range(R.pivots)
                 THEN RSub(RZero, R.reduced[IndexIn(c, R.pivots)][free_vars[b]])
                 ELSE RZero]]

(***************************************************************************)
(* simplify_coefficients                                                   *)
(***************************************************************************)
\* lcm taking the larger of the two numbers
lcm_larger(a, b) ==
  IF Abs(a) > Abs(b) THEN Abs(a) ELSE Abs(b)

lcm(a, b) ==
  Abs(a * b) \div gcd(a, b)

\* reduce(f, xs, initial) for f = lcm
RECURSIVE ReduceLcm(_, _)
ReduceLcm(xs, acc) ==
  IF xs = <<>> THEN acc ELSE ReduceLcm(Tail(xs), lcm(acc, Head(xs)))

\* reduce(gcd, xs) without an initial value: the first item starts the fold
RECURSIVE ReduceGcdFrom(_, _)
ReduceGcdFrom(xs, acc) ==
  IF xs = <<>> THEN acc ELSE ReduceGcdFrom(Tail(xs), gcd(acc, Head(xs)))

ReduceGcd(xs) ==
  ReduceGcdFrom(Tail(xs), Head(xs))

\* int(x) of a rational: truncation toward zero
IntTrunc(x) ==
  IF x[1] < 0 THEN -((-x[1]) \div x[2]) ELSE x[1] \div x[2]

\* a // b of Python ints: floor division
FloorDiv(a, b) ==
  IF b < 0 THEN (-a) \div (-b) ELSE a \div b

simplify_coefficients(coefficients) ==
  LET denominators == [i \in DOMAIN coefficients |-> Abs(coefficients[i][2])]
      scale_factor == ReduceLcm(denominators, 1)
      scaled_coeffs == [i \in DOMAIN coefficients |->
                          IntTrunc(RMul(coefficients[i], RInt(scale_factor)))]
      gcd_coeffs == ReduceGcd(scaled_coeffs)
  IN  [i \in DOMAIN scaled_coeffs |-> FloorDiv(scaled_coeffs[i], gcd_coeffs)]

(***************************************************************************)
(* The reaction strings balance_reaction is called with                    *)
(***************************************************************************)
Sp ==
  <<" ">>

\* "a + b -> c + d"
Rx(lhs, rhs) ==
  Join(lhs, <<" ", "+", " ">>) \o <<" ", "-", ">", " ">> \o Join(rhs, <<" ", "+", " ">>)

H2 == <<"H", "2">>
O2 == <<"O", "2">>
H2O == <<"H", "2", "O">>
Fe == <<"F", "e">>
Fe2O3 == <<"F", "e", "2", "O", "3">>
C3H8 == <<"C", "3", "H", "8">>
CO2 == <<"C", "O", "2">>
NaOH == <<"N", "a", "O", "H">>

CH3COOH == <<"C", "H", "3", "C", "O", "O", "H">>
H3 == <<"H", "3">>
H2O3 == <<"H", "2", "O", "3">>
h2o == <<"h", "2", "o">>
H2_O == <<"H", "2", " ", "O">>
Ca3PO42 == <<"C", "a", "3", "(", "P", "O", "4", ")", "2">>
CaO == <<"C", "a", "O">>
P2O5 == <<"P", "2", "O", "5">>

\* the reactions the documentation and the tests of the balancer name
Examples ==
  { Rx(<<H2, O2>>, <<H2O>>),
    Rx(<<Fe, O2>>, <<Fe2O3>>),
    Rx(<<C3H8, O2>>, <<CO2, H2O>>),
    Rx(<<NaOH>>, <<NaOH>>),
    Rx(<<H2O, H2>>, <<O2>>),
    Rx(<<H3, O2>>, <<H2O3>>),
    Rx(<<CH3COOH, O2>>, <<CO2, H2O>>),
    Rx(<<h2o>>, <<H2, O2>>),
    Rx(<<H2_O>>, <<H2, O2>>),
    Rx(<<Ca3PO42>>, <<CaO, P2O5>>),
    Sp \o Arrow \o Sp \o H2O,
    H2 \o <<" ", "+", " ">> \o O2 \o Sp \o Arrow \o Sp,
    H2 \o <<" ", "+", " ">> \o O2 \o Sp \o H2O }

\* largest subscript written in a generated formula
MaxCount == 2

\* most compounds, both sides together, in a generated reaction
MaxCompounds == 3

\* most tokens in a generated token string
MaxTokens == 4

\* most spaces put between two tokens of a generated token string
MaxPad == 1

AtomStr(symbol, n) ==
  IF n = 0 THEN <<>> ELSE IF n = 1 THEN symbol ELSE symbol \o NatStr(n)

\* the generated flat formulas over H and O: "H", "H2", "O", "O2", "HO", "H2O", ...
GenFormulas ==
  {AtomStr(<<"H">>, a) : a \in 1..MaxCount}
    \cup {AtomStr(<<"O">>, a) : a \in 1..MaxCount}
    \cup {AtomStr(<<"H">>, a) \o <<"O">> : a \in 1..MaxCount}

\* reaction is "f + ... -> g + ..." for generated formulas, at most MaxCompounds
\* of them
FormulaReaction(r) ==
  \E n, m \in 1..MaxCompounds :
    /\ n + m <= MaxCompounds
    /\ \E lhs \in [1..n -> GenFormulas], rhs \in [1..m -> GenFormulas] : r = Rx(lhs, rhs)

RECURSIVE Spaces(_)
Spaces(n) ==
  IF n = 0 THEN <<>> ELSE Sp \o Spaces(n - 1)

Tokens ==
  {H2, <<"O">>, <<"h">>, <<"(">>, Plus, Arrow}

\* reaction is a string of at most MaxTokens tokens, well formed or not, the
\* tokens run together or set apart by spaces
TokenReaction(r) ==
  \E n \in 0..MaxTokens, pad \in 0..MaxPad :
    \E ts \in [1..n -> Tokens] : r = Join(ts, Spaces(pad))

(***************************************************************************)
(* balance_reaction, one step per statement group                          *)
(***************************************************************************)
VARIABLES
  pc,               \* the statement balance_reaction is at
  reaction,         \* the argument
  reactants,        \* locals of balance_reaction, <<>> until assigned
  products,
  elements,
  matrix,
  null_space,
  coefficients,     \* null_space[0], then the simplified list
  reactant_coeffs,
  product_coeffs,
  returned,         \* which return statement ran
  result            \* the returned str

vars ==
  <<pc, reaction, reactants, products, elements, matrix, null_space,
    coefficients, reactant_coeffs, product_coeffs, returned, result>>

\* the two fixed messages, each kept as one unit
InvalidFormatMessage ==
  <<"Invalid reaction format. Use '->' to separate reactants and products.">>

CannotBalanceMessage ==
  <<"This reaction cannot be balanced.">>

Init ==
  /\ pc = "parse_reaction"
  /\ \/ reaction \in Examples
     \/ FormulaReaction(reaction)
     \/ TokenReaction(reaction)
  /\ reactants = <<>>
  /\ products = <<>>
  /\ elements = <<>>
  /\ matrix = <<>>
  /\ null_space = <<>>
  /\ coefficients = <<>>
  /\ reactant_coeffs = <<>>
  /\ product_coeffs = <<>>
  /\ returned = "none"
  /\ result = <<>>

\* lines 114-116
ParseReaction ==
  /\ pc = "parse_reaction"
  /\ LET parsed == parse_reaction(reaction)
     IN  IF parsed = None
         THEN /\ returned' = "invalid_format"
              /\ result' = InvalidFormatMessage
              /\ pc' = "done"
              /\ UNCHANGED <<reactants, products>>
         ELSE /\ reactants' = parsed[1]
              /\ products' = parsed[2]
              /\ pc' = "get_elements"
              /\ UNCHANGED <<returned, result>>
  /\ UNCHANGED <<reaction, elements, matrix, null_space, coefficients,
                 reactant_coeffs, product_coeffs>>

\* line 118
GetElements ==
  /\ pc = "get_elements"
  /\ elements' = get_elements(reactants, products)
  /\ pc' = "build_matrix"
  /\ UNCHANGED <<reaction, reactants, products, matrix, null_space, coefficients,
                 reactant_coeffs, product_coeffs, returned, result>>

\* line 119
BuildMatrix ==
  /\ pc = "build_matrix"
  /\ matrix' = build_matrix(reactants, products, elements)
  /\ pc' = "nullspace"
  /\ UNCHANGED <<reaction, reactants, products, elements, null_space, coefficients,
                 reactant_coeffs, product_coeffs, returned, result>>

\* lines 121-126
Nullspace ==
  /\ pc = "nullspace"
  /\ LET ns == nullspace(Matrix(matrix), MatrixCols(matrix))
     IN  /\ null_space' = ns
         /\ IF ns = <<>>
            THEN /\ returned' = "cannot_balance"
                 /\ result' = CannotBalanceMessage
                 /\ pc' = "done"
                 /\ UNCHANGED coefficients
            ELSE /\ coefficients' = ns[1]
                 /\ pc' = "simplify_coefficients"
                 /\ UNCHANGED <<returned, result>>
  /\ UNCHANGED <<reaction, reactants, products, elements, matrix,
                 reactant_coeffs, product_coeffs>>

\* line 127
SimplifyCoefficients ==
  /\ pc = "simplify_coefficients"
  /\ coefficients' = simplify_coefficients(coefficients)
  /\ pc' = "format"
  /\ UNCHANGED <<reaction, reactants, products, elements, matrix, null_space,
                 reactant_coeffs, product_coeffs, returned, result>>

\* coefficients[:n] and coefficients[n:]
SliceTo(xs, n) ==
  SubSeq(xs, 1, IF n < Len(xs) THEN n ELSE Len(xs))

SliceFrom(xs, n) ==
  SubSeq(xs, n + 1, Len(xs))

\* FormatSide taking the coefficients from the far end
FormatSide_reversed(coeffs, compounds) ==
  Join([i \in DOMAIN compounds |->
          IntStr(coeffs[Len(compounds) + 1 - i]) \o <<" ">> \o compounds[i]],
       <<" ", "+", " ">>)

\* " + ".join(f"{coeffs[i]} {compounds[i]}" for i in range(len(compounds)))
FormatSide(coeffs, compounds) ==
  Join([i \in DOMAIN compounds |-> IntStr(coeffs[i]) \o <<" ">> \o compounds[i]],
       <<" ", "+", " ">>)

\* lines 130-138
Format ==
  /\ pc = "format"
  /\ LET num_reactants == Len(reactants)
         rc == SliceTo(coefficients, num_reactants)
         pcs == SliceFrom(coefficients, num_reactants)
     IN  /\ reactant_coeffs' = rc
         /\ product_coeffs' = pcs
         /\ result' = FormatSide(rc, reactants) \o <<" ", "-", ">", " ">>
                        \o FormatSide(pcs, products)
  /\ returned' = "balanced"
  /\ pc' = "done"
  /\ UNCHANGED <<reaction, reactants, products, elements, matrix, null_space,
                 coefficients>>

Next ==
  \/ ParseReaction
  \/ GetElements
  \/ BuildMatrix
  \/ Nullspace
  \/ SimplifyCoefficients
  \/ Format

Spec ==
  Init /\ [][Next]_vars

(***************************************************************************)
(* Properties                                                              *)
(***************************************************************************)
RECURSIVE SumSeq(_)
SumSeq(xs) ==
  IF xs = <<>> THEN 0 ELSE Head(xs) + SumSeq(Tail(xs))

Balanced ==
  pc = "done" /\ returned = "balanced"

\* the coefficient list the result carries, reactants then products
ReturnedCoeffs ==
  reactant_coeffs \o product_coeffs

\* atoms of element e in a compound, as parse_compound reads the compound
AtomsAsParsed(compound, e) ==
  Get(parse_compound(compound), e, 0)

\* C1: in every balanced result, for every element of the sorted element
\* list, the reactants' coefficient-weighted atom counts (as parsed) sum to the
\* same number as the products'.
C1_Conservation ==
  Balanced =>
    /\ Len(reactant_coeffs) = Len(reactants)
    /\ Len(product_coeffs) = Len(products)
    /\ \A r \in DOMAIN elements :
         SumSeq([i \in DOMAIN reactants |->
                   reactant_coeffs[i] * AtomsAsParsed(reactants[i], elements[r])])
           = SumSeq([j \in DOMAIN products |->
                       product_coeffs[j] * AtomsAsParsed(products[j], elements[r])])

\* a balanced result over at least two elements with a coefficient above 1
C1_Witness ==
  /\ Balanced
  /\ Len(elements) >= 2
  /\ \E k \in DOMAIN ReturnedCoeffs : ReturnedCoeffs[k] > 1
  /\ \A k \in DOMAIN ReturnedCoeffs : ReturnedCoeffs[k] >= 1

\* C2: every coefficient of every balanced result is at least 1 (a chosen
\* null-space vector with a zero or negative entry never yields a result).
C2_Positivity ==
  Balanced => \A k \in DOMAIN ReturnedCoeffs : ReturnedCoeffs[k] >= 1

RECURSIVE GcdAll(_)
GcdAll(xs) ==
  IF xs = <<>> THEN 0 ELSE gcd(Head(xs), GcdAll(Tail(xs)))

Sign(n) ==
  IF n > 0 THEN 1 ELSE IF n < 0 THEN -1 ELSE 0

\* C3: in every balanced result the gcd of the absolute values of all
\* coefficients is 1 and the coefficients are integers that are the chosen
\* rational null-space vector times one positive factor (denominators cleared
\* without loss, the gcd division exact).
C3_Minimality ==
  Balanced =>
    /\ GcdAll(ReturnedCoeffs) = 1
    /\ Len(ReturnedCoeffs) = Len(null_space[1])
    /\ \A i \in DOMAIN ReturnedCoeffs :
         /\ ReturnedCoeffs[i] \in Int
         /\ Sign(ReturnedCoeffs[i]) = Sign(null_space[1][i][1])
         /\ \A j \in DOMAIN ReturnedCoeffs :
              ReturnedCoeffs[i] * null_space[1][j][1] * null_space[1][i][2]
                = ReturnedCoeffs[j] * null_space[1][i][1] * null_space[1][j][2]

\* a balanced result whose null-space vector had two different denominators
\* above 1
C3_Witness ==
  /\ Balanced
  /\ \E i, j \in DOMAIN null_space[1] :
       /\ null_space[1][i][2] > 1
       /\ null_space[1][j][2] > null_space[1][i][2]

\* the compounds of the parsed reaction, reactants then products: one matrix
\* column each
Compounds ==
  reactants \o products

Parsed ==
  pc # "parse_reaction" /\ returned # "invalid_format"

AlphaNum ==
  Upper \cup Lower \cup Digit

\* a flat formula: one or more tokens, each an uppercase letter, lowercase
\* letters, digits
FlatFormula(s) ==
  /\ s # <<>>
  /\ s[1] \in Upper
  /\ \A i \in DOMAIN s :
       /\ s[i] \in AlphaNum
       /\ s[i] \in Lower => (i > 1 /\ s[i - 1] \notin Digit)

\* atoms of element e in a compound: the counts of all occurrences of e summed
AtomsSummed(compound, e) ==
  LET items == findall(compound, 1)
  IN  SumSeq([k \in DOMAIN items |-> IF items[k][1] = e THEN CountOf(items[k][2]) ELSE 0])

\* the conservation matrix of the parsed reaction with every occurrence counted
SummedMatrix ==
  [r \in DOMAIN elements |->
     [c \in DOMAIN Compounds |->
        IF c <= Len(reactants)
        THEN AtomsSummed(Compounds[c], elements[r])
        ELSE -AtomsSummed(Compounds[c], elements[r])]]

SummedNullspace ==
  nullspace([r \in DOMAIN SummedMatrix |->
               [c \in DOMAIN Compounds |-> RInt(SummedMatrix[r][c])]],
            Len(Compounds))

\* C4: for a reaction of flat formulas whose conservation matrix has a
\* one-dimensional null space with an all-positive vector, the result is
\* balanced and its coefficients are the coprime positive integers of that
\* null space.
C4_SmallestPositive ==
  ( /\ pc = "done"
    /\ Parsed
    /\ \A c \in DOMAIN Compounds : FlatFormula(Compounds[c])
    /\ Len(SummedNullspace) = 1
    /\ \A c \in DOMAIN Compounds : SummedNullspace[1][c][1] > 0 )
  => /\ returned = "balanced"
     /\ Len(ReturnedCoeffs) = Len(Compounds)
     /\ \A c \in DOMAIN ReturnedCoeffs : ReturnedCoeffs[c] >= 1
     /\ GcdAll(ReturnedCoeffs) = 1
     /\ \A r \in DOMAIN elements :
          SumSeq([c \in DOMAIN Compounds |-> ReturnedCoeffs[c] * SummedMatrix[r][c]]) = 0

\* C5: every entry of the matrix built from the parsed compounds is the sum of
\* the counts of all occurrences of the row's element in the column's compound.
C5_CountsSummed ==
  (Parsed /\ pc \in {"nullspace", "simplify_coefficients", "format", "done"})
  => \A r \in DOMAIN matrix : \A c \in DOMAIN Compounds :
       Abs(matrix[r][c]) = AtomsSummed(Compounds[c], elements[r])

\* occurrences of "->" in the reaction string
ArrowCount ==
  Cardinality({i \in DOMAIN reaction : StartsWith(reaction, i, Arrow)})

ArrowAt ==
  CHOOSE i \in DOMAIN reaction : StartsWith(reaction, i, Arrow)

NothingComputed ==
  /\ reactants = <<>>
  /\ products = <<>>
  /\ elements = <<>>
  /\ matrix = <<>>
  /\ null_space = <<>>
  /\ coefficients = <<>>
  /\ reactant_coeffs = <<>>
  /\ product_coeffs = <<>>

\* C6: a reaction string without "->" or with more than one ends in the format
\* error with no element list, matrix, null space or coefficients computed; a
\* string with exactly one "->" is parsed into the two sides around it.
C6_ArrowHandling ==
  pc # "parse_reaction" =>
    /\ ArrowCount # 1 =>
         /\ pc = "done"
         /\ returned = "invalid_format"
         /\ result = InvalidFormatMessage
         /\ NothingComputed
    /\ ArrowCount = 1 =>
         /\ returned # "invalid_format"
         /\ reactants = StripAll(Split(SubSeq(reaction, 1, ArrowAt - 1), Plus))
         /\ products = StripAll(Split(SubSeq(reaction, ArrowAt + 2, Len(reaction)), Plus))

\* a string with two arrows has been rejected
C6_Witness ==
  /\ pc = "done"
  /\ ArrowCount = 2
  /\ returned = "invalid_format"

EmptySide(side) ==
  \A i \in DOMAIN side : side[i] = <<>>

\* C7: a reaction with one "->" and a side without any non-empty compound
\* token ends in the format error.
C7_EmptySideRejected ==
  (pc = "done" /\ ArrowCount = 1
     /\ \/ EmptySide(StripAll(Split(SubSeq(reaction, 1, ArrowAt - 1), Plus)))
        \/ EmptySide(StripAll(Split(SubSeq(reaction, ArrowAt + 2, Len(reaction)), Plus))))
  => returned = "invalid_format"

\* a compound term outside the flat-formula grammar: no element token in it,
\* or a character that is neither a letter nor a digit
BadTerm(s) ==
  \/ \A i \in DOMAIN s : s[i] \notin Upper
  \/ \E i \in DOMAIN s : s[i] \notin AlphaNum

\* C8: a reaction with a non-empty compound term that has no element token or
\* has a character outside letters and digits ends in the format error.
C8_BadTermRejected ==
  (pc = "done" /\ \E c \in DOMAIN Compounds : Compounds[c] # <<>> /\ BadTerm(Compounds[c]))
  => returned = "invalid_format"

\* rank of the conservation matrix: one column per compound, one row per
\* element
ConservationRank ==
  Len(rref([r \in DOMAIN matrix |-> [c \in DOMAIN Compounds |-> RInt(matrix[r][c])]],
           Len(Compounds)).pivots)

\* C9: a parsed reaction ends as unbalanceable exactly when its conservation
\* matrix has full column rank, and then no coefficients were produced.
C9_UnbalanceableIffFullRank ==
  (pc = "done" /\ Parsed) =>
    /\ returned = "cannot_balance" <=> ConservationRank = Len(Compounds)
    /\ returned = "cannot_balance" => (coefficients = <<>> /\ ReturnedCoeffs = <<>>)

\* the text of the k-th term of the result
ExpectedTerm(k) ==
  IntStr(coefficients[k]) \o <<" ">> \o Compounds[k]

\* C10: in a balanced result the k-th coefficient stands with the k-th
\* compound, reactants in input order then products in input order (the order
\* of the matrix columns); each side has as many terms as the input side and
\* each compound is the trimmed input token.
C10_OrderAndPairing ==
  Balanced =>
    /\ Len(coefficients) = Len(Compounds)
    /\ reactant_coeffs = [k \in DOMAIN reactants |-> coefficients[k]]
    /\ product_coeffs = [k \in DOMAIN products |-> coefficients[Len(reactants) + k]]
    /\ \A r \in DOMAIN matrix : \A c \in DOMAIN Compounds :
         matrix[r][c] = IF c <= Len(reactants)
                        THEN AtomsAsParsed(Compounds[c], elements[r])
                        ELSE -AtomsAsParsed(Compounds[c], elements[r])
    /\ reactants = StripAll(Split(SubSeq(reaction, 1, ArrowAt - 1), Plus))
    /\ products = StripAll(Split(SubSeq(reaction, ArrowAt + 2, Len(reaction)), Plus))
    /\ result = Join([k \in DOMAIN reactants |-> ExpectedTerm(k)], <<" ", "+", " ">>)
                  \o <<" ", "-", ">", " ">>
                  \o Join([k \in DOMAIN products |-> ExpectedTerm(Len(reactants) + k)],
                          <<" ", "+", " ">>)

\* a balanced result with two terms on each side and four different
\* coefficients
C10_Witness ==
  /\ Balanced
  /\ Len(reactants) = 2
  /\ Len(products) = 2
  /\ Cardinality(Range(ReturnedCoeffs)) = 4

====
